---------------------------- MODULE Spec2Model ----------------------------
(***************************************************************************)
(* Model of ElectrolyzerDataAnalyzer (src/electrolyzer_data_analyzer.py):  *)
(* CSV ingestion and merge on a worker thread, column-role classification, *)
(* ramp segmentation of the current signal and polarization-curve          *)
(* aggregation.                                                            *)
(*                                                                         *)
(* Numbers.  Every numeric cell is a fixed-point integer in units of       *)
(* 1/Scale (1e-7), one digit finer than the 6 decimals the aggregator      *)
(* rounds to.  Floats may also be +inf, -inf or NaN; a cell may be text.   *)
(* Text (cells and column names) is a sequence of one-character strings,   *)
(* so that lower(), strip(), substring tests, string comparison and        *)
(* parsing are computed rather than assumed.                               *)
(***************************************************************************)
EXTENDS Integers, Sequences, FiniteSets, TLC

(***************************************************************************)
(* Bounds of the model.                                                    *)
(***************************************************************************)
\* most data rows in one drawn table (SpecDetect)
MaxRows == 4
\* most readings in one drawn segment (SpecAgg)
MaxAggRows == 3
\* most data rows in one drawn source file (SpecMerge)
MaxFileRows == 2
\* most columns in one drawn header (SpecClassify)
MaxCols == 3

\* fixed-point scale: 1 A (or 1 V) = Scale units
Scale == 10 * 1000 * 1000

(***************************************************************************)
(* Characters and text.                                                    *)
(***************************************************************************)
\* the characters the model uses, in code-point order (what Python's str
\* comparison goes by)
Ascii ==
  << " ", ".", "0", "1", "2", "3", "4", "5", "6", "7", "8", "9",
     "A", "B", "C", "D", "E", "F", "G", "H", "I", "J", "K", "L", "M",
     "N", "O", "P", "Q", "R", "S", "T", "U", "V", "W", "X", "Y", "Z", "_",
     "a", "b", "c", "d", "e", "f", "g", "h", "i", "j", "k", "l", "m",
     "n", "o", "p", "q", "r", "s", "t", "u", "v", "w", "x", "y", "z" >>

OrdTable ==
  [c \in {Ascii[i] : i \in 1..Len(Ascii)} |->
     CHOOSE i \in 1..Len(Ascii) : Ascii[i] = c]

Ord(c) == OrdTable[c]

Digits == << "0", "1", "2", "3", "4", "5", "6", "7", "8", "9" >>

IsDigit(c) == \E i \in 1..10 : Digits[i] = c

DigitVal(c) == (CHOOSE i \in 1..10 : Digits[i] = c) - 1

\* str.lower() on one character: "A".."Z" are Ascii[13..38], "a".."z" are
\* Ascii[40..65]
LowerChar(c) ==
  LET i == Ord(c) IN IF i >= 13 /\ i <= 38 THEN Ascii[i + 27] ELSE c

Lower(s) == [i \in 1..Len(s) |-> LowerChar(s[i])]

\* str.strip(): leading and trailing blanks removed
RECURSIVE LStrip(_)
LStrip(s) == IF s # <<>> /\ Head(s) = " " THEN LStrip(Tail(s)) ELSE s

RECURSIVE RStrip(_)
RStrip(s) ==
  IF s # <<>> /\ s[Len(s)] = " " THEN RStrip(SubSeq(s, 1, Len(s) - 1)) ELSE s

Strip(s) == RStrip(LStrip(s))

\* Python's  kw in s  (substring test)
Contains(s, kw) ==
  \E i \in 1..(Len(s) - Len(kw) + 1) : SubSeq(s, i, i + Len(kw) - 1) = kw

\* Python's  a < b  on str: lexicographic by code point
RECURSIVE StrLess(_, _)
StrLess(a, b) ==
  IF b = <<>> THEN FALSE
  ELSE IF a = <<>> THEN TRUE
  ELSE IF Head(a) # Head(b) THEN Ord(Head(a)) < Ord(Head(b))
  ELSE StrLess(Tail(a), Tail(b))

KwTime == << "t", "i", "m", "e" >>
KwTimestamp == << "t", "i", "m", "e", "s", "t", "a", "m", "p" >>
KwCurrent == << "c", "u", "r", "r", "e", "n", "t" >>
KwVolt == << "v", "o", "l", "t" >>
SourceFileCol == << "s", "o", "u", "r", "c", "e", "_", "f", "i", "l", "e" >>

(***************************************************************************)
(* Cells.  k is "num" (finite float, n units), "inf", "ninf", "nan"        *)
(* (NaN / NaT / missing) or "str" (text s).                                *)
(***************************************************************************)
Num(n) == [k |-> "num", n |-> n, s |-> <<>>]
NaN == [k |-> "nan", n |-> 0, s |-> <<>>]
PosInf == [k |-> "inf", n |-> 0, s |-> <<>>]
NegInf == [k |-> "ninf", n |-> 0, s |-> <<>>]
Str(s) == [k |-> "str", n |-> 0, s |-> s]

IsNa(c) == c.k = "nan"

RECURSIVE DigitsValue(_, _)
DigitsValue(s, acc) ==
  IF s = <<>> THEN acc ELSE DigitsValue(Tail(s), 10 * acc + DigitVal(Head(s)))

AllDigits(s) == s # <<>> /\ \A i \in 1..Len(s) : IsDigit(s[i])

\* pd.to_numeric(..., errors='coerce') on one cell: floats pass, text made
\* of digits parses, any other text becomes NaN
ToNumeric(c) ==
  IF c.k # "str" THEN c
  ELSE IF AllDigits(c.s) THEN Num(DigitsValue(c.s, 0) * Scale)
  ELSE NaN

\* Timestamps of one file family share their date and leave out the part
\* all cells have in common; a cell reads  <seconds>.<fraction>Z  with one
\* or two fraction digits (RFC 3339 writers drop trailing zeros).
\* pd.to_datetime(..., errors='coerce') on one cell gives the time in
\* centiseconds, or NaT.  Time columns of the modelled files hold text or
\* are missing.
DotAt(s) == CHOOSE i \in 1..Len(s) : s[i] = "."

IsTimeText(s) ==
  /\ Len(s) >= 4
  /\ s[Len(s)] = "Z"
  /\ \E i \in 2..(Len(s) - 2) :
       /\ s[i] = "."
       /\ AllDigits(SubSeq(s, 1, i - 1))
       /\ AllDigits(SubSeq(s, i + 1, Len(s) - 1))
       /\ Len(s) - 1 - i <= 2

ParseTime(s) ==
  LET d == DotAt(s)
      whole == DigitsValue(SubSeq(s, 1, d - 1), 0)
      frac == SubSeq(s, d + 1, Len(s) - 1)
      cs == IF Len(frac) = 1 THEN 10 * DigitsValue(frac, 0)
            ELSE DigitsValue(frac, 0)
  IN 100 * whole + cs

ToDatetime(c) ==
  CASE c.k = "nan" -> NaN
    [] c.k = "str" -> IF IsTimeText(c.s) THEN Num(ParseTime(c.s)) ELSE NaN

(***************************************************************************)
(* Tables (DataFrames): a header and rows of cells aligned with it.        *)
(***************************************************************************)
None == <<>>
Some(x) == <<x>>

Table(cols, rows) == [columns |-> cols, rows |-> rows]

ColIndex(cols, name) == CHOOSE i \in 1..Len(cols) : cols[i] = name

HasCol(cols, name) == \E i \in 1..Len(cols) : cols[i] = name

\* df[name]: the column as a sequence of cells
Column(df, name) ==
  LET j == ColIndex(df.columns, name)
  IN [i \in 1..Len(df.rows) |-> df.rows[i][j]]

\* pd.read_csv(file_path, skiprows=3); df.columns = df.columns.str.strip();
\* df['source_file'] = filename.  onDisk is the table below the three
\* skipped lines.
ReadCsv(onDisk, filename) ==
  LET stripped == [j \in 1..Len(onDisk.columns) |-> Strip(onDisk.columns[j])]
  IN IF HasCol(stripped, SourceFileCol)
     THEN LET j == ColIndex(stripped, SourceFileCol)
          IN Table(stripped,
                   [i \in 1..Len(onDisk.rows) |->
                      [onDisk.rows[i] EXCEPT ![j] = Str(filename)]])
     ELSE Table(Append(stripped, SourceFileCol),
                [i \in 1..Len(onDisk.rows) |->
                   Append(onDisk.rows[i], Str(filename))])

\* header of pd.concat: the union of the frames' columns in order of first
\* appearance
RECURSIVE ConcatColumns(_, _)
ConcatColumns(frames, acc) ==
  IF frames = <<>> THEN acc
  ELSE LET new == SelectSeq(Head(frames).columns, LAMBDA c : ~HasCol(acc, c))
       IN ConcatColumns(Tail(frames), acc \o new)

\* one frame's rows laid out under the union header, NaN where the frame
\* has no such column
Realign(df, cols) ==
  [i \in 1..Len(df.rows) |->
     [j \in 1..Len(cols) |->
        IF HasCol(df.columns, cols[j])
        THEN df.rows[i][ColIndex(df.columns, cols[j])]
        ELSE NaN]]

RECURSIVE ConcatRows(_, _)
ConcatRows(frames, cols) ==
  IF frames = <<>> THEN <<>>
  ELSE Realign(Head(frames), cols) \o ConcatRows(Tail(frames), cols)

\* pd.concat(frames, ignore_index=True)
Concat(frames) ==
  LET cols == ConcatColumns(frames, <<>>)
  IN Table(cols, ConcatRows(frames, cols))

\* the order sort_values compares keys by: text by code point, floats by
\* value.  NaN keys never get here, and a column mixing text and floats
\* raises TypeError in pandas: no modelled file has one.
KeyLess(a, b) ==
  CASE a.k = "str" /\ b.k = "str" -> StrLess(a.s, b.s)
    [] a.k = "num" /\ b.k = "num" -> a.n < b.n

RemoveAt(xs, i) == SubSeq(xs, 1, i - 1) \o SubSeq(xs, i + 1, Len(xs))

\* every arrangement of rows that is ascending by the key in column j.
\* pandas sorts with kind='quicksort' by default, which is not stable:
\* rows with equal keys may come out in any relative order.
RECURSIVE Arrangements(_, _)
Arrangements(rows, j) ==
  IF rows = <<>> THEN {<<>>}
  ELSE LET least == {i \in 1..Len(rows) :
                       \A m \in 1..Len(rows) : ~KeyLess(rows[m][j], rows[i][j])}
       IN UNION {{<<rows[i]>> \o rest : rest \in Arrangements(RemoveAt(rows, i), j)}
                 : i \in least}

\* df.sort_values(col): the set of tables the call may return.  Rows whose
\* key is NaN go last, in their original order (na_position='last').
SortValues(df, col) ==
  LET j == ColIndex(df.columns, col)
      keyed == SelectSeq(df.rows, LAMBDA r : ~IsNa(r[j]))
      missing == SelectSeq(df.rows, LAMBDA r : IsNa(r[j]))
  IN {Table(df.columns, a \o missing) : a \in Arrangements(keyed, j)}

(***************************************************************************)
(* Column classifier.                                                      *)
(***************************************************************************)
\* [col for col in columns if 'time' in col.lower()]  (line 537)
SortColumns(cols) == SelectSeq(cols, LAMBDA c : Contains(Lower(c), KwTime))

\* update_column_lists: timestamp_columns
TimestampColumns(cols) ==
  SelectSeq(cols, LAMBDA c : Contains(Lower(c), KwTime)
                          \/ Contains(Lower(c), KwTimestamp))

\* update_column_lists: data_columns
DataColumns(cols) ==
  LET ts == TimestampColumns(cols)
  IN SelectSeq(cols, LAMBDA c : ~HasCol(ts, c) /\ c # SourceFileCol)

\* update_column_lists: voltage_columns
\* VoltageColumns matching the keyword against the name as written, without
\* lower()
VoltageColumnsCaseSensitive(cols) ==
  SelectSeq(DataColumns(cols), LAMBDA c : Contains(c, KwVolt))

VoltageColumns(cols) ==
  SelectSeq(DataColumns(cols), LAMBDA c : Contains(Lower(c), KwVolt))

\* [col for col in columns if 'current' in col.lower()]  (line 960)
CurrentColumns(cols) == SelectSeq(cols, LAMBDA c : Contains(Lower(c), KwCurrent))

(***************************************************************************)
(* Float arithmetic on cells holding floats.                               *)
(***************************************************************************)
\* a - b  (IEEE: inf - inf is NaN)
FSub(a, b) ==
  CASE a.k = "nan" \/ b.k = "nan" -> NaN
    [] a.k = "num" /\ b.k = "num" -> Num(a.n - b.n)
    [] a.k = "inf" /\ b.k = "inf" -> NaN
    [] a.k = "ninf" /\ b.k = "ninf" -> NaN
    [] a.k = "inf" -> PosInf
    [] a.k = "ninf" -> NegInf
    [] b.k = "inf" -> NegInf
    [] b.k = "ninf" -> PosInf

\* a >= t  and  a <= -t  for a finite t
FGe(a, t) == a.k = "inf" \/ (a.k = "num" /\ a.n >= t)
FLeNeg(a, t) == a.k = "ninf" \/ (a.k = "num" /\ a.n <= -t)

(***************************************************************************)
(* Ramp segmentation: _detect_polarization_tests.  Indices are Python's    *)
(* (from 0); the sequences of the model start at 1, so clean index i is    *)
(* element i + 1.  NoIdx stands for None.                                  *)
(***************************************************************************)
NoIdx == 0 - 1

\* series.iloc[a : b + 1]
ILocSlice(xs, a, b) == SubSeq(xs, a + 1, b + 1)

\* ValidRows with valid_mask left out: every row of the table is kept
ValidRowsUnmasked(df, current_col, time_col, tags) == df.rows

\* the rows that survive valid_mask
ValidRows(df, current_col, time_col, tags) ==
  SelectSeq(df.rows,
     LAMBDA r :
       /\ ~IsNa(ToNumeric(r[ColIndex(df.columns, current_col)]))
       /\ ~IsNa(ToDatetime(r[ColIndex(df.columns, time_col)]))
       /\ \A t \in 1..Len(tags) :
            ~IsNa(ToNumeric(r[ColIndex(df.columns, tags[t])])))

\* current_clean, time_clean, voltage_clean
CleanSeries(df, current_col, time_col, tags) ==
  LET rows == ValidRows(df, current_col, time_col, tags)
      n == Len(rows)
  IN [current |-> [i \in 1..n |-> ToNumeric(rows[i][ColIndex(df.columns, current_col)])],
      time |-> [i \in 1..n |-> ToDatetime(rows[i][ColIndex(df.columns, time_col)])],
      voltage |-> [tag \in {tags[t] : t \in 1..Len(tags)} |->
                     [i \in 1..n |-> ToNumeric(rows[i][ColIndex(df.columns, tag)])]]]

\* finalize_sequence: tests with the segment appended, or tests as it was
FinalizeSequence(tests, clean, start_idx, end_idx, direction, steps) ==
  IF start_idx = NoIdx \/ end_idx = NoIdx \/ end_idx <= start_idx \/ steps = 0
  THEN tests
  ELSE LET start_time == clean.time[start_idx + 1]
           end_time == clean.time[end_idx + 1]
       IN Append(tests,
            [start_time |-> start_time,
             end_time |-> end_time,
             start_idx |-> start_idx,
             end_idx |-> end_idx,
             type |-> IF direction > 0 THEN "Ramp Up" ELSE "Ramp Down",
             duration |-> IF ~IsNa(start_time) /\ ~IsNa(end_time)
                          THEN end_time.n - start_time.n ELSE 0,
             step_count |-> steps,
             current_data |-> ILocSlice(clean.current, start_idx, end_idx),
             voltage_series |-> [tag \in DOMAIN clean.voltage |->
                                   ILocSlice(clean.voltage[tag], start_idx, end_idx)],
             time_data |-> ILocSlice(clean.time, start_idx, end_idx)])

\* StepDir without the downward branch: a fall of the current counts as flat
StepDirUpOnly(delta, threshold) == IF FGe(delta, threshold) THEN 1 ELSE 0

\* StepDir with the threshold ignored: any rise is a step up, any fall a
\* step down
StepDirAnyChange(delta, threshold) ==
  IF FGe(delta, 1) THEN 1
  ELSE IF FLeNeg(delta, 1) THEN 0 - 1
  ELSE 0

\* StepDir with the comparisons turned round: a change is a step when it
\* does not exceed the threshold
StepDirInverted(delta, threshold) ==
  IF delta.k # "num" \/ delta.n = 0 THEN 0
  ELSE IF delta.n > 0 /\ delta.n <= threshold THEN 1
  ELSE IF delta.n < 0 /\ delta.n >= 0 - threshold THEN 0 - 1
  ELSE 0

\* step_dir of one delta (lines 1021-1025)
StepDir(delta, threshold) ==
  IF FGe(delta, threshold) THEN 1
  ELSE IF FLeNeg(delta, threshold) THEN 0 - 1
  ELSE 0

\* LoopBody with the reversal branch lost: a step of the opposite direction
\* extends the open sequence like a step of its own direction
LoopBodyNoReversal(st, idx, clean, threshold) ==
  LET delta == FSub(clean.current[idx + 1], clean.current[idx])
      step_dir == StepDir(delta, threshold)
  IN IF IsNa(delta) THEN st
     ELSE IF st.sequence_dir = 0
     THEN IF step_dir # 0
          THEN [st EXCEPT !.sequence_dir = step_dir,
                          !.sequence_start = idx - 1,
                          !.last_idx = idx,
                          !.step_events = 1]
          ELSE st
     ELSE IF step_dir = 0
     THEN [st EXCEPT !.last_idx = idx]
     ELSE [st EXCEPT !.step_events = st.step_events + 1, !.last_idx = idx]

\* LoopBody opening the sequence after a reversal at idx instead of
\* idx - 1
LoopBodyReopenAtIdx(st, idx, clean, threshold) ==
  LET delta == FSub(clean.current[idx + 1], clean.current[idx])
      step_dir == StepDir(delta, threshold)
  IN IF IsNa(delta) \/ st.sequence_dir = 0 \/ step_dir = 0
        \/ step_dir = st.sequence_dir
     THEN LoopBodyNoReversal(st, idx, clean, threshold)
     ELSE [sequence_dir |-> step_dir,
           sequence_start |-> idx,
           last_idx |-> idx,
           step_events |-> 1,
           tests |-> FinalizeSequence(st.tests, clean, st.sequence_start,
                                      st.last_idx, st.sequence_dir,
                                      st.step_events)]

\* LoopBody with a flat pair passed over: it does not move the end of the
\* open sequence
LoopBodyFlatIgnored(st, idx, clean, threshold) ==
  LET delta == FSub(clean.current[idx + 1], clean.current[idx])
      step_dir == StepDir(delta, threshold)
  IN IF ~IsNa(delta) /\ st.sequence_dir # 0 /\ step_dir = 0
     THEN st
     ELSE IF IsNa(delta) \/ st.sequence_dir = 0 \/ step_dir = st.sequence_dir
     THEN LoopBodyNoReversal(st, idx, clean, threshold)
     ELSE [sequence_dir |-> step_dir,
           sequence_start |-> idx - 1,
           last_idx |-> idx,
           step_events |-> 1,
           tests |-> FinalizeSequence(st.tests, clean, st.sequence_start,
                                      st.last_idx, st.sequence_dir,
                                      st.step_events)]

\* LoopBody with a flat pair counted as a step event of the open sequence
LoopBodyFlatCounted(st, idx, clean, threshold) ==
  LET delta == FSub(clean.current[idx + 1], clean.current[idx])
      step_dir == StepDir(delta, threshold)
  IN IF ~IsNa(delta) /\ st.sequence_dir # 0 /\ step_dir = 0
     THEN [st EXCEPT !.step_events = st.step_events + 1, !.last_idx = idx]
     ELSE IF IsNa(delta) \/ st.sequence_dir = 0 \/ step_dir = st.sequence_dir
     THEN LoopBodyNoReversal(st, idx, clean, threshold)
     ELSE [sequence_dir |-> step_dir,
           sequence_start |-> idx - 1,
           last_idx |-> idx,
           step_events |-> 1,
           tests |-> FinalizeSequence(st.tests, clean, st.sequence_start,
                                      st.last_idx, st.sequence_dir,
                                      st.step_events)]

\* one pass of the loop body for index idx (lines 1016-1051)
LoopBody(st, idx, clean, threshold) ==
  LET delta == FSub(clean.current[idx + 1], clean.current[idx])
      step_dir == StepDir(delta, threshold)
  IN IF IsNa(delta) THEN st
     ELSE IF st.sequence_dir = 0
     THEN IF step_dir # 0
          THEN [st EXCEPT !.sequence_dir = step_dir,
                          !.sequence_start = idx - 1,
                          !.last_idx = idx,
                          !.step_events = 1]
          ELSE st
     ELSE IF step_dir = 0
     THEN [st EXCEPT !.last_idx = idx]
     ELSE IF step_dir = st.sequence_dir
     THEN [st EXCEPT !.step_events = st.step_events + 1, !.last_idx = idx]
     ELSE LET last == IF st.last_idx = NoIdx THEN idx - 1 ELSE st.last_idx
          IN [sequence_dir |-> step_dir,
              sequence_start |-> idx - 1,
              last_idx |-> idx,
              step_events |-> 1,
              tests |-> FinalizeSequence(st.tests, clean, st.sequence_start,
                                         last, st.sequence_dir, st.step_events)]

\* for idx in range(1, len(current_clean))
RECURSIVE Loop(_, _, _, _)
Loop(st, idx, clean, threshold) ==
  IF idx >= Len(clean.current) THEN st
  ELSE Loop(LoopBody(st, idx, clean, threshold), idx + 1, clean, threshold)

\* the segments in detection order: the loop, then the open sequence
\* finalized (lines 988-1056)
DetectedTests(clean, threshold) ==
  LET st == Loop([sequence_dir |-> 0, sequence_start |-> NoIdx,
                  last_idx |-> NoIdx, step_events |-> 0, tests |-> <<>>],
                 1, clean, threshold)
  IN IF st.sequence_dir # 0
     THEN FinalizeSequence(st.tests, clean, st.sequence_start,
                           IF st.last_idx = NoIdx THEN Len(clean.current) - 1
                           ELSE st.last_idx,
                           st.sequence_dir, st.step_events)
     ELSE st.tests

\* list.sort(key=...) is stable: insertion of x behind every element whose
\* key is not greater
RECURSIVE InsertByStart(_, _)
InsertByStart(sorted, x) ==
  IF sorted = <<>> THEN <<x>>
  ELSE IF x.start_time.n < Head(sorted).start_time.n THEN <<x>> \o sorted
  ELSE <<Head(sorted)>> \o InsertByStart(Tail(sorted), x)

RECURSIVE SortByStart(_, _)
SortByStart(tests, acc) ==
  IF tests = <<>> THEN acc
  ELSE SortByStart(Tail(tests), InsertByStart(acc, Head(tests)))

\* tests.sort(key=lambda x: x['start_time'])
\* the sort of line 1058 left out: the list stays in detection order
SortTestsOmitted(tests) == tests

SortTests(tests) == SortByStart(tests, <<>>)

\* _detect_polarization_tests(voltage_tags), reading self.combined_df,
\* self.timestamp_columns and self.step_threshold.  raised: the call ends
\* in KeyError because the time column is no column of the table.
DetectPolarizationTests(df, ts_columns, voltage_tags, threshold) ==
  LET current_cols == CurrentColumns(df.columns)
      tags == SelectSeq(voltage_tags, LAMBDA t : HasCol(df.columns, t))
      empty == [raised |-> FALSE, tests |-> <<>>]
  IN IF current_cols = <<>> \/ voltage_tags = <<>> THEN empty
     ELSE IF tags = <<>> THEN empty
     ELSE IF ts_columns = <<>> THEN empty
     ELSE IF ~HasCol(df.columns, ts_columns[1])
     THEN [raised |-> TRUE, tests |-> <<>>]
     ELSE LET clean == CleanSeries(df, current_cols[1], ts_columns[1], tags)
          IN IF Len(clean.current) < 2 THEN empty
             ELSE [raised |-> FALSE,
                   tests |-> SortTests(DetectedTests(clean, threshold))]

(***************************************************************************)
(* The application: state of ElectrolyzerDataAnalyzer, its main (Tk)       *)
(* thread and the ingestion worker thread.  Widget texts, the progress     *)
(* bar and message boxes are not part of the state.                        *)
(***************************************************************************)
VARIABLES
  disk,               \* the folders on disk: folder -> (file name -> table)
  current_path,       \* self.current_path
  file_listbox,       \* the entries of self.file_listbox
  selected_files,     \* self.selected_files
  dataframes,         \* self.dataframes, in insertion order
  combined_df,        \* self.combined_df: None or Some(table)
  timestamp_columns,  \* self.timestamp_columns
  data_columns,       \* self.data_columns
  voltage_columns,    \* self.voltage_columns
  polarization_tests, \* self.polarization_tests
  step_threshold,     \* self.step_threshold
  processing_thread,  \* self.processing_thread and where its target stands
  after_queue,        \* callbacks handed to root.after(0, ...), not yet run
  process_btn,        \* state of self.process_btn
  analyze_call,       \* the analyze_polarization_tests call waiting in
                      \* root.update(): None or Some(its voltage_tags)
  pol_plot,           \* the series drawn on self.pol_ax, None before any
  plotting_thread,    \* self.plotting_thread and where its target stands
  pol_plotting_thread,    \* self.pol_plotting_thread, likewise
  selected_voltage_tags,  \* self.selected_voltage_tags
  active_area_var     \* the text held by self.active_area_var

vars ==
  << disk, current_path, file_listbox, selected_files, dataframes,
     combined_df, timestamp_columns, data_columns, voltage_columns,
     polarization_tests, step_threshold, processing_thread, after_queue,
     process_btn, analyze_call, pol_plot, plotting_thread,
     pol_plotting_thread, selected_voltage_tags, active_area_var >>

\* the state of the two plot workers and of the entries they read
plot_vars ==
  << plotting_thread, pol_plotting_thread, selected_voltage_tags,
     active_area_var >>

\* most callbacks waiting in the Tk event queue before the main thread
\* runs one
MaxPending == 0

\* self.step_threshold = 0.5
DefaultThreshold == Scale \div 2

NoThread == [pc |-> "none", files |-> <<>>, i |-> 0]

\* self.plotting_thread = None
NoPlotThread == [pc |-> "none", x_col |-> <<>>, columns |-> <<>>]

\* self.pol_plotting_thread = None
NoPolThread ==
  [pc |-> "none", selected_indices |-> <<>>, voltage_tags |-> <<>>,
   active_area |-> 0]

\* lines 85-93: no plot worker yet, no tag selected, the area entry
\* holding the text of tk.DoubleVar(value=25.0)
PlotIdle ==
  /\ plotting_thread = NoPlotThread
  /\ pol_plotting_thread = NoPolThread
  /\ selected_voltage_tags = <<>>
  /\ active_area_var = << "2", "5", ".", "0" >>

\* processing_thread and processing_thread.is_alive()
ThreadAlive == processing_thread.pc \notin {"none", "dead"}

\* sorted(glob.glob(os.path.join(path, "*.csv")))
RECURSIVE SortedNames(_)
SortedNames(names) ==
  IF names = {} THEN <<>>
  ELSE LET least == CHOOSE n \in names : \A m \in names : ~StrLess(m, n)
       IN <<least>> \o SortedNames(names \ {least})

\* __init__
InitApp(d, path) ==
  /\ disk = d
  /\ current_path = path
  /\ file_listbox = <<>>
  /\ selected_files = <<>>
  /\ dataframes = <<>>
  /\ combined_df = None
  /\ timestamp_columns = <<>>
  /\ data_columns = <<>>
  /\ voltage_columns = <<>>
  /\ polarization_tests = <<>>
  /\ step_threshold = DefaultThreshold
  /\ processing_thread = NoThread
  /\ after_queue = <<>>
  /\ process_btn = "normal"
  /\ analyze_call = None
  /\ pol_plot = None
  /\ PlotIdle

(***************************************************************************)
(* Main thread: folder and file list.                                      *)
(***************************************************************************)
\* browse_folder: the dialog returns a folder (a cancelled dialog changes
\* nothing), then clear_file_list
BrowseFolder ==
  \E folder \in DOMAIN disk :
    /\ current_path' = folder
    /\ file_listbox' = <<>>
    /\ selected_files' = <<>>
    /\ UNCHANGED << disk, dataframes, combined_df, timestamp_columns,
                    data_columns, voltage_columns, polarization_tests,
                    step_threshold, processing_thread, after_queue,
                    process_btn, analyze_call, pol_plot,
                  plot_vars >>

\* read_files: the list box is refilled; self.selected_files is left alone
ReadFiles ==
  /\ DOMAIN disk[current_path] # {}
  /\ file_listbox' = SortedNames(DOMAIN disk[current_path])
  /\ UNCHANGED << disk, current_path, selected_files, dataframes, combined_df,
                  timestamp_columns, data_columns, voltage_columns,
                  polarization_tests, step_threshold, processing_thread,
                  after_queue, process_btn, analyze_call, pol_plot,
                  plot_vars >>

\* the entries at the positions of sel, in list order
RECURSIVE Picked(_, _, _)
Picked(entries, sel, i) ==
  IF i > Len(entries) THEN <<>>
  ELSE (IF i \in sel THEN <<entries[i]>> ELSE <<>>) \o Picked(entries, sel, i + 1)

\* on_file_selection_change: the operator changed the selection in the
\* list box
OnFileSelectionChange ==
  \E sel \in SUBSET (1..Len(file_listbox)) :
    /\ selected_files' = Picked(file_listbox, sel, 1)
    /\ UNCHANGED << disk, current_path, file_listbox, dataframes, combined_df,
                    timestamp_columns, data_columns, voltage_columns,
                    polarization_tests, step_threshold, processing_thread,
                    after_queue, process_btn, analyze_call, pol_plot,
                  plot_vars >>

(***************************************************************************)
(* Main thread: process_files and the callbacks of the worker.             *)
(***************************************************************************)
\* the body of process_files (lines 466-482)
\* StartProcessing without the "no files selected" return of lines 466-468
StartProcessingUnchecked(selected) ==
  IF ThreadAlive
  THEN UNCHANGED << processing_thread, process_btn >>
  ELSE /\ process_btn' = "disabled"
       /\ processing_thread' = [pc |-> "start", files |-> <<>>, i |-> 0]

StartProcessing(selected) ==
  IF selected = <<>> \/ ThreadAlive
  THEN UNCHANGED << processing_thread, process_btn >>
  ELSE /\ process_btn' = "disabled"
       /\ processing_thread' = [pc |-> "start", files |-> <<>>, i |-> 0]

\* process_files, from the "Process Selected Files" button
ProcessFiles ==
  /\ process_btn = "normal"
  /\ Len(after_queue) <= MaxPending
  /\ StartProcessing(selected_files)
  /\ UNCHANGED << disk, current_path, file_listbox, selected_files,
                  dataframes, combined_df, timestamp_columns, data_columns,
                  voltage_columns, polarization_tests, step_threshold,
                  after_queue, analyze_call, pol_plot,
                  plot_vars >>

\* process_all_files, from the "Process All Files" button
ProcessAllFiles ==
  /\ file_listbox # <<>>
  /\ Len(after_queue) <= MaxPending
  /\ selected_files' = file_listbox
  /\ StartProcessing(file_listbox)
  /\ UNCHANGED << disk, current_path, file_listbox, dataframes, combined_df,
                  timestamp_columns, data_columns, voltage_columns,
                  polarization_tests, step_threshold, after_queue,
                  analyze_call, pol_plot,
                  plot_vars >>

\* _processing_complete, run by the main loop
ProcessingComplete ==
  /\ after_queue # <<>>
  /\ Head(after_queue).op = "_processing_complete"
  /\ after_queue' = Tail(after_queue)
  /\ process_btn' = "normal"
  /\ UNCHANGED << disk, current_path, file_listbox, selected_files,
                  dataframes, combined_df, timestamp_columns, data_columns,
                  voltage_columns, polarization_tests, step_threshold,
                  processing_thread, analyze_call, pol_plot,
                  plot_vars >>

\* _processing_error, run by the main loop
ProcessingError ==
  /\ after_queue # <<>>
  /\ Head(after_queue).op = "_processing_error"
  /\ after_queue' = Tail(after_queue)
  /\ process_btn' = "normal"
  /\ UNCHANGED << disk, current_path, file_listbox, selected_files,
                  dataframes, combined_df, timestamp_columns, data_columns,
                  voltage_columns, polarization_tests, step_threshold,
                  processing_thread, analyze_call, pol_plot,
                  plot_vars >>

(***************************************************************************)
(* The ingestion worker: _process_files_thread, one action per statement   *)
(* that reads or writes state the main thread shares.                      *)
(***************************************************************************)
WorkerVarsKept ==
  UNCHANGED << disk, current_path, file_listbox, selected_files,
               polarization_tests, step_threshold, process_btn, analyze_call,
               pol_plot, plot_vars >>

\* self.dataframes = {}; the for loop takes the list self.selected_files
\* names at this moment
WorkerStart ==
  /\ processing_thread.pc = "start"
  /\ dataframes' = <<>>
  /\ processing_thread' =
       [pc |-> IF selected_files = <<>> THEN "combine" ELSE "read",
        files |-> selected_files, i |-> 1]
  /\ UNCHANGED << combined_df, timestamp_columns, data_columns,
                  voltage_columns, after_queue >>
  /\ WorkerVarsKept

\* one pass of the for loop: read_csv raises when current_path holds no
\* such file, and the except clause schedules _processing_error
WorkerReadFile ==
  /\ processing_thread.pc = "read"
  /\ LET filename == processing_thread.files[processing_thread.i]
         last == processing_thread.i = Len(processing_thread.files)
     IN IF filename \in DOMAIN disk[current_path]
        THEN /\ dataframes' =
                  Append(dataframes, ReadCsv(disk[current_path][filename], filename))
             /\ processing_thread' =
                  [processing_thread EXCEPT
                     !.pc = IF last THEN "combine" ELSE "read",
                     !.i = processing_thread.i + 1]
             /\ after_queue' = after_queue
        ELSE /\ dataframes' = dataframes
             /\ processing_thread' = [processing_thread EXCEPT !.pc = "dead"]
             /\ after_queue' = Append(after_queue, [op |-> "_processing_error"])
  /\ UNCHANGED << combined_df, timestamp_columns, data_columns, voltage_columns >>
  /\ WorkerVarsKept

\* if self.dataframes: self.combined_df = pd.concat(...); with no frame the
\* thread ends and schedules nothing
WorkerConcat ==
  /\ processing_thread.pc = "combine"
  /\ IF dataframes # <<>>
     THEN /\ combined_df' = Some(Concat(dataframes))
          /\ processing_thread' = [processing_thread EXCEPT !.pc = "sort"]
     ELSE /\ combined_df' = combined_df
          /\ processing_thread' = [processing_thread EXCEPT !.pc = "dead"]
  /\ UNCHANGED << dataframes, timestamp_columns, data_columns,
                  voltage_columns, after_queue >>
  /\ WorkerVarsKept

\* the table the worker publishes after its sort step (lines 537-539)
SortedByTimestamp(df) ==
  LET timestamp_cols == SortColumns(df.columns)
  IN IF timestamp_cols # <<>> THEN SortValues(df, timestamp_cols[1]) ELSE {df}

WorkerSort ==
  /\ processing_thread.pc = "sort"
  /\ \E sorted \in SortedByTimestamp(combined_df[1]) :
       combined_df' = Some(sorted)
  /\ processing_thread' = [processing_thread EXCEPT !.pc = "timestamp_columns"]
  /\ UNCHANGED << dataframes, timestamp_columns, data_columns,
                  voltage_columns, after_queue >>
  /\ WorkerVarsKept

\* update_column_lists, called on the worker thread: self.timestamp_columns
WorkerTimestampColumns ==
  /\ processing_thread.pc = "timestamp_columns"
  /\ timestamp_columns' = TimestampColumns(combined_df[1].columns)
  /\ processing_thread' = [processing_thread EXCEPT !.pc = "data_columns"]
  /\ UNCHANGED << dataframes, combined_df, data_columns, voltage_columns,
                  after_queue >>
  /\ WorkerVarsKept

\* update_column_lists: self.data_columns and self.voltage_columns
WorkerDataColumns ==
  /\ processing_thread.pc = "data_columns"
  /\ data_columns' = DataColumns(combined_df[1].columns)
  /\ voltage_columns' = VoltageColumns(combined_df[1].columns)
  /\ processing_thread' = [processing_thread EXCEPT !.pc = "complete"]
  /\ UNCHANGED << dataframes, combined_df, timestamp_columns, after_queue >>
  /\ WorkerVarsKept

\* root.after(0, self._processing_complete(...)); the thread ends
WorkerComplete ==
  /\ processing_thread.pc = "complete"
  /\ after_queue' = Append(after_queue, [op |-> "_processing_complete"])
  /\ processing_thread' = [processing_thread EXCEPT !.pc = "dead"]
  /\ UNCHANGED << dataframes, combined_df, timestamp_columns, data_columns,
                  voltage_columns >>
  /\ WorkerVarsKept

(***************************************************************************)
(* Main thread: analyze_polarization_tests.  The call takes voltage_tags,  *)
(* then runs root.update(), which lets the main loop serve whatever events *)
(* are waiting (callbacks of the worker, other buttons), and only then     *)
(* calls _detect_polarization_tests, which reads the table and the         *)
(* timestamp columns as they stand by then.  A second analysis request     *)
(* served inside root.update() is not modelled.                            *)
(***************************************************************************)
\* lines 926-937
AnalyzeBegin ==
  /\ analyze_call = None
  /\ IF combined_df = None \/ voltage_columns = <<>>
     THEN analyze_call' = None
     ELSE analyze_call' = Some(voltage_columns)
  /\ UNCHANGED << disk, current_path, file_listbox, selected_files,
                  dataframes, combined_df, timestamp_columns, data_columns,
                  voltage_columns, polarization_tests, step_threshold,
                  processing_thread, after_queue, process_btn,
                  pol_plot, plot_vars >>

\* lines 939-954: a KeyError inside the call is caught and leaves
\* self.polarization_tests as it was
AnalyzeDetect ==
  /\ analyze_call # None
  /\ LET df == combined_df[1]
         voltage_tags == analyze_call[1]
         res == DetectPolarizationTests(df, timestamp_columns, voltage_tags,
                                        step_threshold)
     IN polarization_tests' =
          IF res.raised THEN polarization_tests ELSE res.tests
  /\ analyze_call' = None
  /\ UNCHANGED << disk, current_path, file_listbox, selected_files,
                  dataframes, combined_df, timestamp_columns, data_columns,
                  voltage_columns, step_threshold, processing_thread,
                  after_queue, process_btn, pol_plot,
                  plot_vars >>

(***************************************************************************)
(* Polarization-curve aggregation: _create_polarization_plot.  A mean or   *)
(* a quotient is an exact fraction num/den in lowest terms (k = "num"),    *)
(* or inf, -inf, NaN.  Means are in units of 1/Scale; the active area is   *)
(* in tenths of a cm2, so a current density num/den is in units of         *)
(* 10/Scale A/cm2.                                                         *)
(***************************************************************************)
RECURSIVE Gcd(_, _)
Gcd(a, b) == IF b = 0 THEN a ELSE Gcd(b, a % b)

Abs(n) == IF n < 0 THEN 0 - n ELSE n

Frac(num, den) ==
  LET g == Gcd(Abs(num), den)
  IN [k |-> "num", num |-> num \div g, den |-> den \div g]

FracNaN == [k |-> "nan", num |-> 0, den |-> 1]
FracInf == [k |-> "inf", num |-> 0, den |-> 1]
FracNegInf == [k |-> "ninf", num |-> 0, den |-> 1]

\* a < b on means; neither is NaN
FracLess(a, b) ==
  CASE a.k = "ninf" -> b.k # "ninf"
    [] a.k = "inf" -> FALSE
    [] a.k = "num" /\ b.k = "inf" -> TRUE
    [] a.k = "num" /\ b.k = "ninf" -> FALSE
    [] a.k = "num" /\ b.k = "num" ->
         LET qa == a.num \div a.den
             qb == b.num \div b.den
         IN qa < qb \/ (qa = qb /\ (a.num % a.den) * b.den < (b.num % b.den) * a.den)

\* rounding to the nearest 1e-5 instead, halves to the even neighbour
Round5(n) ==
  LET q == n \div 100
      r == n % 100
  IN IF r < 50 THEN 100 * q
     ELSE IF r > 50 THEN 100 * (q + 1)
     ELSE IF q % 2 = 0 THEN 100 * q ELSE 100 * (q + 1)

\* numpy's round(x, 6): to the nearest 1e-6, halves to the even neighbour
Round6(n) ==
  LET q == n \div 10
      r == n % 10
  IN IF r < 5 THEN 10 * q
     ELSE IF r > 5 THEN 10 * (q + 1)
     ELSE IF q % 2 = 0 THEN 10 * q ELSE 10 * (q + 1)

\* Series.round(6) on one cell
RoundCell(c) == IF c.k = "num" THEN Num(Round6(c.n)) ELSE c

RECURSIVE SumCells(_)
SumCells(xs) == IF xs = <<>> THEN 0 ELSE Head(xs).n + SumCells(Tail(xs))

\* Mean with the first cell standing for the whole bin, as the
\* aggregation 'first' would give
MeanOfFirst(xs) ==
  IF Head(xs).k = "num" THEN Frac(Head(xs).n, 1)
  ELSE IF Head(xs).k = "inf" THEN FracInf
  ELSE IF Head(xs).k = "ninf" THEN FracNegInf ELSE FracNaN

\* the mean of a non-empty sequence of float cells
Mean(xs) ==
  LET has(kind) == \E i \in 1..Len(xs) : xs[i].k = kind
  IN IF has("nan") \/ (has("inf") /\ has("ninf")) THEN FracNaN
     ELSE IF has("inf") THEN FracInf
     ELSE IF has("ninf") THEN FracNegInf
     ELSE Frac(SumCells(xs), Len(xs))

\* DivArea with the division by a fixed area of 25.0 cm2, whatever area
\* was passed
DivAreaFixed(m, active_area) ==
  IF m.k = "num" THEN Frac(m.num, m.den * 250) ELSE m

\* averaged_steps['current'] / active_area, for active_area > 0
DivArea(m, active_area) ==
  IF m.k = "num" THEN Frac(m.num, m.den * active_area) ELSE m

\* step_df: the (current, voltage) pairs of a segment and a tag, without
\* the pairs that hold a NaN
StepPairs(test, tag) ==
  LET cur == test.current_data
      vol == test.voltage_series[tag]
      idx == SelectSeq([i \in 1..Len(cur) |-> i],
                       LAMBDA i : ~IsNa(ToNumeric(cur[i])) /\ ~IsNa(ToNumeric(vol[i])))
  IN [p \in 1..Len(idx) |->
        [current |-> ToNumeric(cur[idx[p]]), voltage |-> ToNumeric(vol[idx[p]])]]

\* BinRows with the readings grouped by their current as read, not by the
\* current rounded to 6 decimals
BinRowsUnrounded(pairs) ==
  LET keys == {pairs[i].current : i \in 1..Len(pairs)}
      members(key) == SelectSeq(pairs, LAMBDA q : q.current = key)
  IN {[current |-> Mean([i \in 1..Len(members(key)) |-> members(key)[i].current]),
       voltage |-> Mean([i \in 1..Len(members(key)) |-> members(key)[i].voltage])]
      : key \in keys}

\* groupby('current_bin').agg(mean): one row per distinct rounded current
BinRows(pairs) ==
  LET keys == {RoundCell(pairs[i].current) : i \in 1..Len(pairs)}
      members(key) == SelectSeq(pairs, LAMBDA q : RoundCell(q.current) = key)
  IN {[current |-> Mean([i \in 1..Len(members(key)) |-> members(key)[i].current]),
       voltage |-> Mean([i \in 1..Len(members(key)) |-> members(key)[i].voltage])]
      : key \in keys}

\* .sort_values('current'): the bins have distinct means, so the order is
\* determined
RECURSIVE SortedBins(_)
SortedBins(bins) ==
  IF bins = {} THEN <<>>
  ELSE LET least == CHOOSE b \in bins :
                      \A c \in bins : ~FracLess(c.current, b.current)
       IN <<least>> \o SortedBins(bins \ {least})

\* averaged_steps for one segment and one voltage tag (lines 1147-1160)
AveragedSteps(test, tag) == SortedBins(BinRows(StepPairs(test, tag)))

\* the points of one plotted series (lines 1165-1166)
CurvePoints(test, tag, active_area) ==
  LET averaged_steps == AveragedSteps(test, tag)
  IN [i \in 1..Len(averaged_steps) |->
        [current_density |-> DivArea(averaged_steps[i].current, active_area),
         voltage |-> averaged_steps[i].voltage]]

\* the series one segment contributes, one per voltage tag with data
RECURSIVE TestSeries(_, _, _, _)
TestSeries(test, tags, t, active_area) ==
  IF t > Len(tags) THEN <<>>
  ELSE LET tag == tags[t]
           rest == TestSeries(test, tags, t + 1, active_area)
       IN IF tag \notin DOMAIN test.voltage_series THEN rest
          ELSE IF StepPairs(test, tag) = <<>> THEN rest
          ELSE << [type |-> test.type, tag |-> tag,
                   start_time |-> test.start_time,
                   points |-> CurvePoints(test, tag, active_area)] >> \o rest

RECURSIVE PlottedSeries(_, _, _)
PlottedSeries(tests, voltage_tags, active_area) ==
  IF tests = <<>> THEN <<>>
  ELSE LET test == Head(tests)
           rest == PlottedSeries(Tail(tests), voltage_tags, active_area)
           cur == test.current_data
       IN IF \A i \in 1..Len(cur) : IsNa(ToNumeric(cur[i])) THEN rest
          ELSE TestSeries(test, voltage_tags, 1, active_area) \o rest

\* _create_polarization_plot, run by the main loop; the tags passed are
\* never empty (plot_polarization_tests returns before the thread starts
\* when they are)
CreatePolarizationPlot ==
  /\ after_queue # <<>>
  /\ Head(after_queue).op = "_create_polarization_plot"
  /\ LET call == Head(after_queue)
     IN pol_plot' = Some(PlottedSeries(call.tests, call.voltage_tags,
                                       call.active_area))
  /\ after_queue' = Tail(after_queue)
  /\ UNCHANGED << disk, current_path, file_listbox, selected_files,
                  dataframes, combined_df, timestamp_columns, data_columns,
                  voltage_columns, polarization_tests, step_threshold,
                  processing_thread, process_btn, analyze_call, plot_vars >>

(***************************************************************************)
(* The curve run: plot_polarization_tests on the main thread and its       *)
(* worker _plot_polarization_thread.                                       *)
(***************************************************************************)
\* 25.0 cm2, in tenths
DefaultArea == 250

\* Tcl's reading of the entry text as a double, here in tenths: an optional
\* minus sign, digits and at most one decimal; any other text raises
\* TclError or ValueError
GetDouble(text) ==
  LET neg == text # <<>> /\ Head(text) = "-"
      body == IF neg THEN Tail(text) ELSE text
      n == Len(body)
      whole == AllDigits(body)
      decimal == /\ n >= 3
                 /\ body[n - 1] = "."
                 /\ AllDigits(SubSeq(body, 1, n - 2))
                 /\ IsDigit(body[n])
      tenths == IF whole THEN 10 * DigitsValue(body, 0)
                ELSE 10 * DigitsValue(SubSeq(body, 1, n - 2), 0)
                     + DigitVal(body[n])
  IN IF whole \/ decimal
     THEN [raised |-> FALSE, value |-> IF neg THEN 0 - tenths ELSE tenths]
     ELSE [raised |-> TRUE, value |-> 0]

\* ActiveArea without the "active_area <= 0" substitution of lines 1082-1083
ActiveAreaAsParsed(text) ==
  LET r == GetDouble(text)
  IN IF r.raised THEN DefaultArea ELSE r.value

\* lines 1077-1083: the area a curve run uses for the entry text
ActiveArea(text) ==
  LET r == GetDouble(text)
  IN IF r.raised THEN DefaultArea
     ELSE IF r.value <= 0 THEN DefaultArea ELSE r.value

\* the texts the operator is taken to type into the area entry
ActiveAreaTexts ==
  { << "a", "b", "c" >>, << "-", "3" >>, << "0" >>,
    << "2", "5", ".", "0" >>, << "5", "0" >> }

\* the operator types into self.active_area_entry
SetActiveArea ==
  /\ \E text \in ActiveAreaTexts : active_area_var' = text
  /\ UNCHANGED << disk, current_path, file_listbox, selected_files,
                  dataframes, combined_df, timestamp_columns, data_columns,
                  voltage_columns, polarization_tests, step_threshold,
                  processing_thread, after_queue, process_btn, analyze_call,
                  pol_plot, plotting_thread, pol_plotting_thread,
                  selected_voltage_tags >>

\* pol_plotting_thread and pol_plotting_thread.is_alive()
PolThreadAlive == pol_plotting_thread.pc \notin {"none", "dead"}

\* PlotRequest without the is_alive return of lines 1073-1075
PlotRequestUnguarded(sel, tagsel) ==
  LET selected_indices ==
        Picked([i \in 1..Len(polarization_tests) |-> i - 1], sel, 1)
      selected_tags == Picked(voltage_columns, tagsel, 1)
  IN IF \/ polarization_tests = <<>>
        \/ selected_indices = <<>>
        \/ selected_tags = <<>>
     THEN UNCHANGED << pol_plotting_thread, selected_voltage_tags >>
     ELSE /\ selected_voltage_tags' = selected_tags
          /\ pol_plotting_thread' =
               [pc |-> "start", selected_indices |-> selected_indices,
                voltage_tags |-> selected_tags,
                active_area |-> ActiveArea(active_area_var)]

\* the body of plot_polarization_tests for the selection sel of
\* self.pol_tests_listbox and the selection tagsel of
\* self.voltage_tag_listbox; curselection() gives the chosen positions
\* counted from 0, ascending
PlotRequest(sel, tagsel) ==
  LET selected_indices ==
        Picked([i \in 1..Len(polarization_tests) |-> i - 1], sel, 1)
      selected_tags == Picked(voltage_columns, tagsel, 1)
  IN IF \/ polarization_tests = <<>>
        \/ selected_indices = <<>>
        \/ PolThreadAlive
        \/ selected_tags = <<>>
     THEN UNCHANGED << pol_plotting_thread, selected_voltage_tags >>
     ELSE /\ selected_voltage_tags' = selected_tags
          /\ pol_plotting_thread' =
               [pc |-> "start", selected_indices |-> selected_indices,
                voltage_tags |-> selected_tags,
                active_area |-> ActiveArea(active_area_var)]

\* plot_polarization_tests, from the "Plot Selected Tests" button
PlotPolarizationTests ==
  /\ Len(after_queue) <= MaxPending
  /\ \E sel \in SUBSET (1..Len(polarization_tests)),
        tagsel \in SUBSET (1..Len(voltage_columns)) :
       PlotRequest(sel, tagsel)
  /\ UNCHANGED << disk, current_path, file_listbox, selected_files,
                  dataframes, combined_df, timestamp_columns, data_columns,
                  voltage_columns, polarization_tests, step_threshold,
                  processing_thread, after_queue, process_btn, analyze_call,
                  pol_plot, plotting_thread, active_area_var >>

\* _plot_polarization_thread: the segments are looked up by position in
\* self.polarization_tests as it is now; an IndexError is caught and
\* schedules the error dialog
PlotPolarizationThread ==
  /\ pol_plotting_thread.pc = "start"
  /\ LET t == pol_plotting_thread
         inRange == \A k \in 1..Len(t.selected_indices) :
                      t.selected_indices[k] < Len(polarization_tests)
         selected_tests ==
           [k \in 1..Len(t.selected_indices) |->
              polarization_tests[t.selected_indices[k] + 1]]
     IN after_queue' =
          Append(after_queue,
                 IF inRange
                 THEN [op |-> "_create_polarization_plot",
                       tests |-> selected_tests,
                       voltage_tags |-> t.voltage_tags,
                       active_area |-> t.active_area]
                 ELSE [op |-> "showerror"])
  /\ pol_plotting_thread' = [NoPolThread EXCEPT !.pc = "dead"]
  /\ UNCHANGED << disk, current_path, file_listbox, selected_files,
                  dataframes, combined_df, timestamp_columns, data_columns,
                  voltage_columns, polarization_tests, step_threshold,
                  processing_thread, process_btn, analyze_call, pol_plot,
                  plotting_thread, selected_voltage_tags, active_area_var >>

(***************************************************************************)
(* The time-series plot run: generate_plot on the main thread and its      *)
(* worker _generate_plot_thread.  The figure itself is not part of the     *)
(* state.                                                                  *)
(***************************************************************************)
\* plotting_thread and plotting_thread.is_alive()
PlotThreadAlive == plotting_thread.pc \notin {"none", "dead"}

\* generate_plot, from the "Generate Plot" button; the combo box offers
\* the timestamp columns, the list box the data columns, of which the
\* operator is taken to select the first or none
GeneratePlot ==
  /\ Len(after_queue) <= MaxPending
  /\ \E x_col \in {<<>>} \cup {timestamp_columns[i] : i \in 1..Len(timestamp_columns)},
        sel \in SUBSET {1} :
       LET primary_cols == Picked(data_columns, sel, 1)
       IN IF combined_df = None \/ x_col = <<>> \/ primary_cols = <<>>
             \/ PlotThreadAlive
          THEN UNCHANGED plotting_thread
          ELSE plotting_thread' =
                 [pc |-> "start", x_col |-> x_col, columns |-> primary_cols]
  /\ UNCHANGED << disk, current_path, file_listbox, selected_files,
                  dataframes, combined_df, timestamp_columns, data_columns,
                  voltage_columns, polarization_tests, step_threshold,
                  processing_thread, after_queue, process_btn, analyze_call,
                  pol_plot, pol_plotting_thread, selected_voltage_tags,
                  active_area_var >>

\* _generate_plot_thread: reads self.combined_df as it is now; without
\* the X column nothing is scheduled, without any Y column a warning
GeneratePlotThread ==
  /\ plotting_thread.pc = "start"
  /\ LET t == plotting_thread
         columns == combined_df[1].columns
         has(c) == \E i \in 1..Len(columns) : columns[i] = c
         labels == SelectSeq(t.columns, has)
     IN after_queue' =
          IF ~has(t.x_col) THEN after_queue
          ELSE IF labels = <<>>
          THEN Append(after_queue, [op |-> "showwarning"])
          ELSE Append(after_queue,
                      [op |-> "_create_plot", x_col |-> t.x_col,
                       labels |-> labels])
  /\ plotting_thread' = [NoPlotThread EXCEPT !.pc = "dead"]
  /\ UNCHANGED << disk, current_path, file_listbox, selected_files,
                  dataframes, combined_df, timestamp_columns, data_columns,
                  voltage_columns, polarization_tests, step_threshold,
                  processing_thread, process_btn, analyze_call, pol_plot,
                  pol_plotting_thread, selected_voltage_tags,
                  active_area_var >>

\* _create_plot, run by the main loop: draws the figure
CreatePlot ==
  /\ after_queue # <<>>
  /\ Head(after_queue).op = "_create_plot"
  /\ after_queue' = Tail(after_queue)
  /\ UNCHANGED << disk, current_path, file_listbox, selected_files,
                  dataframes, combined_df, timestamp_columns, data_columns,
                  voltage_columns, polarization_tests, step_threshold,
                  processing_thread, process_btn, analyze_call, pol_plot,
                  plot_vars >>

\* a dialog scheduled by a plot worker, run by the main loop
ShowDialog ==
  /\ after_queue # <<>>
  /\ Head(after_queue).op \in {"showerror", "showwarning"}
  /\ after_queue' = Tail(after_queue)
  /\ UNCHANGED << disk, current_path, file_listbox, selected_files,
                  dataframes, combined_df, timestamp_columns, data_columns,
                  voltage_columns, polarization_tests, step_threshold,
                  processing_thread, process_btn, analyze_call, pol_plot,
                  plot_vars >>

(***************************************************************************)
(* Files, folders and inputs.                                              *)
(***************************************************************************)
FileA == << "a" >>
FileB == << "b" >>

ColTime == << "T", "i", "m", "e" >>
ColCurrent == << "C", "u", "r", "r", "e", "n", "t" >>
ColCellVoltage == << "C", "e", "l", "l", " ", "V", "o", "l", "t", "a", "g", "e" >>
ColStackVolt == << "S", "t", "a", "c", "k", " ", "V", "O", "L", "T" >>

\* the text of the time  sec.frac  seconds
TimeText(sec, frac) == << Digits[sec + 1], "." >> \o frac \o << "Z" >>

SeqsUpTo(S, n) == UNION {[1..m -> S] : m \in 0..n}

Amps(tenths) == Num(tenths * (Scale \div 10))
Volts(hundredths) == Num(hundredths * (Scale \div 100))

(***************************************************************************)
(* Spec: the application with its threads, on a fixed pair of folders.     *)
(* Folder "data" holds a.csv (two readings, a step down of 1 A) and b.csv  *)
(* (one earlier reading, another voltage column); folder "other" holds no  *)
(* CSV file.                                                               *)
(***************************************************************************)
TableA ==
  Table(<< ColTime, ColCurrent, ColCellVoltage >>,
        << << Str(TimeText(2, <<"5">>)), Amps(10), Volts(180) >>,
           << Str(TimeText(3, <<"5">>)), Amps(0), Volts(170) >> >>)

TableB ==
  Table(<< ColTime, ColCurrent, ColStackVolt >>,
        << << Str(TimeText(1, <<"5">>)), Amps(0), Volts(160) >> >>)

\* a folder without CSV files
NoFiles == [f \in {} |-> TableA]

AppDisk ==
  [folder \in {"data", "other"} |->
     IF folder = "data"
     THEN [f \in {FileA, FileB} |-> IF f = FileA THEN TableA ELSE TableB]
     ELSE NoFiles]

Init == InitApp(AppDisk, "data")

Next ==
  \/ BrowseFolder
  \/ ReadFiles
  \/ OnFileSelectionChange
  \/ ProcessFiles
  \/ ProcessAllFiles
  \/ WorkerStart
  \/ WorkerReadFile
  \/ WorkerConcat
  \/ WorkerSort
  \/ WorkerTimestampColumns
  \/ WorkerDataColumns
  \/ WorkerComplete
  \/ ProcessingComplete
  \/ ProcessingError
  \/ AnalyzeBegin
  \/ AnalyzeDetect

Spec == Init /\ [][Next]_vars

\* Spec with the scheduling the program runs under: a started worker
\* thread takes its next step, and the Tk main loop runs a waiting callback
SpecLive ==
  /\ Spec
  /\ WF_vars(WorkerStart)
  /\ WF_vars(WorkerReadFile)
  /\ WF_vars(WorkerConcat)
  /\ WF_vars(WorkerSort)
  /\ WF_vars(WorkerTimestampColumns)
  /\ WF_vars(WorkerDataColumns)
  /\ WF_vars(WorkerComplete)
  /\ WF_vars(ProcessingComplete)
  /\ WF_vars(ProcessingError)

(***************************************************************************)
(* The pipeline run once, in order: read the folder, process all files,    *)
(* let the worker finish, then analyze.  SpecMerge and SpecClassify draw   *)
(* the content of the folder.                                              *)
(***************************************************************************)
PipelineReadFiles == file_listbox = <<>> /\ ReadFiles

PipelineProcessAll == processing_thread.pc = "none" /\ ProcessAllFiles

PipelineAnalyze ==
  /\ processing_thread.pc = "dead"
  /\ after_queue = <<>>
  /\ AnalyzeBegin

NextPipeline ==
  \/ PipelineReadFiles
  \/ PipelineProcessAll
  \/ WorkerStart
  \/ WorkerReadFile
  \/ WorkerConcat
  \/ WorkerSort
  \/ WorkerTimestampColumns
  \/ WorkerDataColumns
  \/ WorkerComplete
  \/ ProcessingComplete
  \/ PipelineAnalyze
  \/ AnalyzeDetect

\* SpecMerge: a.csv with up to MaxFileRows readings and b.csv with one
\* fewer at most.  The time cells are 1.5, 1.55 and 2.5 s as text; the
\* current tells the rows apart (row i of a.csv reads i - 1 A, the rows of
\* b.csv go on from there); b.csv has its columns in another order and
\* blanks around two names, which the worker strips.
MergeTimes ==
  { TimeText(1, <<"5">>), TimeText(1, <<"5", "5">>), TimeText(2, <<"5">>) }

ColCurrentBlank == << " " >> \o ColCurrent
ColTimeBlank == ColTime \o << " " >>

MergeTableA(times) ==
  Table(<< ColTime, ColCurrent, ColCellVoltage >>,
        [i \in 1..Len(times) |->
           << Str(times[i]), Amps(10 * (i - 1)), Volts(180) >>])

MergeTableB(times) ==
  Table(<< ColCurrentBlank, ColTimeBlank, ColCellVoltage >>,
        [i \in 1..Len(times) |->
           << Amps(10 * (MaxFileRows + i - 1)), Str(times[i]), Volts(180) >>])

InitMerge ==
  \E ta \in SeqsUpTo(MergeTimes, MaxFileRows),
     tb \in SeqsUpTo(MergeTimes, MaxFileRows - 1) :
    InitApp([folder \in {"data"} |->
               [f \in {FileA, FileB} |->
                  IF f = FileA THEN MergeTableA(ta) ELSE MergeTableB(tb)]],
            "data")

SpecMerge == InitMerge /\ [][NextPipeline]_vars

\* SpecClassify: one file without readings whose header is any list of up
\* to MaxCols distinct names
ColVoltTime == << "V", "o", "l", "t", "_", "T", "i", "m", "e" >>
ColVoltCurrent == << "V", "O", "L", "T", " ", "c", "u", "r", "r", "e", "n", "t" >>
ColTimestampBlank == << " ", "T", "i", "m", "e", "s", "t", "a", "m", "p", " " >>
ColTemp == << "T", "e", "m", "p" >>

HeaderNames ==
  { ColTime, ColTimestampBlank, ColCurrent, ColCellVoltage, ColVoltTime,
    ColVoltCurrent, ColTemp, SourceFileCol }

Headers ==
  { h \in SeqsUpTo(HeaderNames, MaxCols) :
      \A i, j \in 1..Len(h) : i # j => h[i] # h[j] }

InitClassify ==
  \E h \in Headers :
    InitApp([folder \in {"data"} |-> [f \in {FileA} |-> Table(h, <<>>)]], "data")

SpecClassify == InitClassify /\ [][NextPipeline]_vars

(***************************************************************************)
(* SpecDetect: segmentation of one loaded file.  The table has up to       *)
(* MaxRows readings one second apart (or is the table of Scenario A); the  *)
(* currents are drawn, and so is the threshold.                            *)
(***************************************************************************)
DetectCurrents == { Amps(0), Amps(3), Amps(10), PosInf, NaN }

DetectThresholds == { Scale \div 2, Scale }

ScenarioACurrents ==
  << Amps(0), Amps(0), Amps(50), Amps(100), Amps(100), Amps(100), Amps(50), Amps(0) >>

RampTable(currents) ==
  Table(<< ColTime, ColCurrent, ColCellVoltage >>,
        [i \in 1..Len(currents) |->
           << Str(TimeText(i - 1, <<"0">>)), currents[i], Volts(180) >>])

\* the state after a.csv, holding onDisk, was read, selected, processed and
\* its completion callback has run, with tests as the held segments
LoadedWith(onDisk, threshold, tests) ==
  LET df == ReadCsv(onDisk, FileA)
  IN /\ disk = [folder \in {"data"} |-> [f \in {FileA} |-> onDisk]]
     /\ current_path = "data"
     /\ file_listbox = << FileA >>
     /\ selected_files = << FileA >>
     /\ dataframes = << df >>
     /\ combined_df \in {Some(sorted) : sorted \in SortedByTimestamp(Concat(<< df >>))}
     /\ timestamp_columns = TimestampColumns(df.columns)
     /\ data_columns = DataColumns(df.columns)
     /\ voltage_columns = VoltageColumns(df.columns)
     /\ polarization_tests = tests
     /\ step_threshold = threshold
     /\ processing_thread = [pc |-> "dead", files |-> << FileA >>, i |-> 2]
     /\ after_queue = <<>>
     /\ process_btn = "normal"
     /\ analyze_call = None
     /\ pol_plot = None
     /\ PlotIdle

\* the same, before any analysis
Loaded(onDisk, threshold) == LoadedWith(onDisk, threshold, <<>>)

InitDetect ==
  \E currents \in SeqsUpTo(DetectCurrents, MaxRows) \cup {ScenarioACurrents},
     threshold \in DetectThresholds :
    Loaded(RampTable(currents), threshold)

NextDetect == AnalyzeBegin \/ AnalyzeDetect

SpecDetect == InitDetect /\ [][NextDetect]_vars

(***************************************************************************)
(* SpecAgg: the aggregator applied to one segment of 2..MaxAggRows readings *)
(* with drawn currents and voltages (or the segment of Scenario D) and a   *)
(* drawn active area.                                                      *)
(***************************************************************************)
Micro(n) == Num(n * (Scale \div (1000 * 1000)))

\* 4.999999 A, and 4.9999996 A and 5.0000004 A, which share the bin 5.000000
AggCurrents == { Micro(4999999), Num(5 * Scale - 4), Num(5 * Scale + 4) }

AggVoltages == { Volts(180), Volts(182) }

\* 25.0 and 50.0 cm2
AggAreas == { 25 * 10, 50 * 10 }

\* a segment holding exactly the given readings
Segment(currents, voltages) ==
  LET clean == [current |-> currents,
                time |-> [i \in 1..Len(currents) |-> Num(100 * (i - 1))],
                voltage |-> [tag \in {ColCellVoltage} |-> voltages]]
  IN FinalizeSequence(<<>>, clean, 0, Len(currents) - 1, 1, 1)

ScenarioDSegment ==
  Segment(<< Micro(4999999), Micro(5000001) >>, << Volts(180), Volts(182) >>)

AggSegments ==
  UNION {{Segment(c, v) : c \in [1..n -> AggCurrents], v \in [1..n -> AggVoltages]}
         : n \in 2..MaxAggRows}

InitAgg ==
  \E tests \in AggSegments \cup {ScenarioDSegment}, area \in AggAreas :
    /\ disk = [folder \in {"data"} |-> NoFiles]
    /\ current_path = "data"
    /\ file_listbox = <<>>
    /\ selected_files = <<>>
    /\ dataframes = <<>>
    /\ combined_df = None
    /\ timestamp_columns = <<>>
    /\ data_columns = <<>>
    /\ voltage_columns = <<>>
    /\ polarization_tests = tests
    /\ step_threshold = DefaultThreshold
    /\ processing_thread = NoThread
    /\ after_queue = << [op |-> "_create_polarization_plot", tests |-> tests,
                         voltage_tags |-> << ColCellVoltage >>,
                         active_area |-> area] >>
    /\ process_btn = "normal"
    /\ analyze_call = None
    /\ pol_plot = None
    /\ PlotIdle

NextAgg == CreatePolarizationPlot

SpecAgg == InitAgg /\ [][NextAgg]_vars

(***************************************************************************)
(* SpecReload: the application on a folder whose b.csv lacks a column      *)
(* role: it has either no time column or no voltage column.                *)
(***************************************************************************)
TableNoTime ==
  Table(<< ColCurrent, ColCellVoltage >>,
        << << Amps(0), Volts(160) >>,
           << Amps(10), Volts(170) >> >>)

TableNoVolt ==
  Table(<< ColTime, ColCurrent >>,
        << << Str(TimeText(1, <<"5">>)), Amps(0) >>,
           << Str(TimeText(4, <<"5">>)), Amps(10) >> >>)

ReloadDisk(tb) ==
  [folder \in {"data", "other"} |->
     IF folder = "data"
     THEN [f \in {FileA, FileB} |-> IF f = FileA THEN TableA ELSE tb]
     ELSE NoFiles]

InitReload ==
  \E tb \in {TableNoTime, TableNoVolt} : InitApp(ReloadDisk(tb), "data")

SpecReload == InitReload /\ [][Next]_vars

(***************************************************************************)
(* SpecCurve: the three operations that run on workers, on one loaded      *)
(* and analyzed file with a single ramp.  The operator may reprocess,      *)
(* type an active area, and ask for either plot at any moment.             *)
(***************************************************************************)
CurveCurrents == << Amps(0), Amps(3), Amps(10) >>

\* the segments "Analyze" finds in the table of SpecCurve
CurveTests ==
  LET df == ReadCsv(RampTable(CurveCurrents), FileA)
  IN DetectPolarizationTests(df, TimestampColumns(df.columns),
                             VoltageColumns(df.columns),
                             DefaultThreshold).tests

InitCurve ==
  LoadedWith(RampTable(CurveCurrents), DefaultThreshold, CurveTests)

NextCurve ==
  \/ ProcessFiles
  \/ ProcessAllFiles
  \/ WorkerStart
  \/ WorkerReadFile
  \/ WorkerConcat
  \/ WorkerSort
  \/ WorkerTimestampColumns
  \/ WorkerDataColumns
  \/ WorkerComplete
  \/ ProcessingComplete
  \/ SetActiveArea
  \/ PlotPolarizationTests
  \/ PlotPolarizationThread
  \/ CreatePolarizationPlot
  \/ GeneratePlot
  \/ GeneratePlotThread
  \/ CreatePlot

SpecCurve == InitCurve /\ [][NextCurve]_vars

(***************************************************************************)
(* SpecRace: the application of Spec with the curve run added: the         *)
(* operator may ask for a curve while files are reprocessed and the table  *)
(* is analyzed again.                                                      *)
(***************************************************************************)
NextRace ==
  \/ Next
  \/ PlotPolarizationTests
  \/ PlotPolarizationThread
  \/ CreatePolarizationPlot
  \/ ShowDialog

SpecRace == Init /\ [][NextRace]_vars

(***************************************************************************)
(* Properties.                                                             *)
(***************************************************************************)
\* the cleaned series _detect_polarization_tests works on, for the table
\* and role lists of the current state
CleanNow ==
  LET df == combined_df[1]
  IN CleanSeries(df, CurrentColumns(df.columns)[1], timestamp_columns[1],
                 SelectSeq(voltage_columns, LAMBDA t : HasCol(df.columns, t)))

\* |delta| < t
IsFlat(delta, t) == delta.k = "num" /\ Abs(delta.n) < t

\* the delta of the clean pair (i - 1, i), Python indices
DeltaAt(clean, i) == FSub(clean.current[i + 1], clean.current[i])

\* C1: for every threshold and every cleaned current sequence, each emitted
\* segment has end_idx > start_idx and no step of the opposite direction:
\* every pair delta at positions start_idx+1..end_idx is >= t or flat
\* (|delta| < t) in a 'Ramp Up' segment, and <= -t or flat in a 'Ramp Down'
\* segment.
C1_NoOppositeStep ==
  \A k \in 1..Len(polarization_tests) :
    LET test == polarization_tests[k]
    IN /\ test.end_idx > test.start_idx
       /\ test.type \in {"Ramp Up", "Ramp Down"}
       /\ \A i \in (test.start_idx + 1)..test.end_idx :
            LET delta == DeltaAt(CleanNow, i)
            IN IF test.type = "Ramp Up"
               THEN FGe(delta, step_threshold) \/ IsFlat(delta, step_threshold)
               ELSE FLeNeg(delta, step_threshold) \/ IsFlat(delta, step_threshold)

\* C1 witness: an analysis found an up segment that holds a flat pair and,
\* after it, a down segment
C1_Witness ==
  /\ Len(polarization_tests) >= 2
  /\ \E k \in 1..Len(polarization_tests) :
       LET test == polarization_tests[k]
       IN /\ test.type = "Ramp Up"
          /\ \E i \in (test.start_idx + 1)..test.end_idx :
               IsFlat(DeltaAt(CleanNow, i), step_threshold)
  /\ \E k \in 1..Len(polarization_tests) : polarization_tests[k].type = "Ramp Down"

ScenarioALoaded ==
  /\ combined_df = Some(ReadCsv(RampTable(ScenarioACurrents), FileA))
  /\ step_threshold = DefaultThreshold

\* C2 as the spec states it: Scenario A yields exactly two segments, an up
\* run then a down run, each lasting between 2 and 3 seconds
C2_ScenarioAAsStated ==
  [][(ScenarioALoaded /\ AnalyzeDetect) =>
       (/\ Len(polarization_tests') = 2
        /\ polarization_tests'[1].type = "Ramp Up"
        /\ polarization_tests'[2].type = "Ramp Down"
        /\ \A k \in 1..2 : /\ polarization_tests'[k].duration >= 200
                           /\ polarization_tests'[k].duration <= 300)]_vars

\* C2, amended: Scenario A yields exactly two segments: an up run over the
\* clean indices 1..5 (the 0->10 climb and the plateau that follows it, two
\* steps, 4 s) and then a down run over 5..7 (the 10->0 descent, two steps,
\* 2 s).
C2_ScenarioA ==
  [][(ScenarioALoaded /\ AnalyzeDetect) =>
       (/\ Len(polarization_tests') = 2
        /\ polarization_tests'[1].type = "Ramp Up"
        /\ polarization_tests'[1].start_idx = 1
        /\ polarization_tests'[1].end_idx = 5
        /\ polarization_tests'[1].step_count = 2
        /\ polarization_tests'[1].duration = 400
        /\ polarization_tests'[2].type = "Ramp Down"
        /\ polarization_tests'[2].start_idx = 5
        /\ polarization_tests'[2].end_idx = 7
        /\ polarization_tests'[2].step_count = 2
        /\ polarization_tests'[2].duration = 200)]_vars

\* C2 witness: Scenario A has been analyzed
C2_Witness == ScenarioALoaded /\ Len(polarization_tests) = 2

\* the ingestion run has ended and left a table
RunEnded == combined_df # None /\ processing_thread.pc = "dead"

\* the instant a cell of the sort column stands for, in centiseconds
TimeOfRow(df, i) == ToDatetime(Column(df, SortColumns(df.columns)[1])[i])

\* position of a row in a table whose rows are all different
RowPos(df, row) == CHOOSE i \in 1..Len(df.rows) : df.rows[i] = row

\* C3: the table an ingestion run leaves is ordered ascending by its first
\* timestamp column: no reading stands before a reading of an earlier
\* instant.
C3_TimestampAscending ==
  (RunEnded /\ SortColumns(combined_df[1].columns) # <<>>) =>
    LET df == combined_df[1]
    IN \A i \in 1..(Len(df.rows) - 1) :
         LET a == TimeOfRow(df, i)
             b == TimeOfRow(df, i + 1)
         IN (a.k = "num" /\ b.k = "num") => a.n <= b.n

\* C4: the merger's sort is stable: two rows with equal sort keys stand in
\* the merged table in the relative order they have in the concatenated
\* input.
C4_SortStable ==
  (RunEnded /\ SortColumns(combined_df[1].columns) # <<>>) =>
    LET df == combined_df[1]
        input == Concat(dataframes)
        key == Column(df, SortColumns(df.columns)[1])
    IN \A i, j \in 1..Len(df.rows) :
         (i < j /\ key[i] = key[j]) =>
           RowPos(input, df.rows[i]) < RowPos(input, df.rows[j])

\* C9: every segment held after the analysis of a merged table has a
\* duration >= 0.
C9_DurationNonNegative ==
  \A k \in 1..Len(polarization_tests) : polarization_tests[k].duration >= 0

\* position of a segment in a list of different segments
TestPos(tests, test) == CHOOSE i \in 1..Len(tests) : tests[i] = test

\* C10: the list _detect_polarization_tests returns is ascending by start
\* timestamp, and segments with equal start timestamps keep their detection
\* order.
C10_SortedByStart ==
  RunEnded =>
    LET detected == DetectedTests(CleanNow, step_threshold)
    IN \A i, j \in 1..Len(polarization_tests) :
         i < j =>
           LET a == polarization_tests[i]
               b == polarization_tests[j]
           IN /\ a.start_time.n <= b.start_time.n
              /\ a.start_time.n = b.start_time.n =>
                   TestPos(detected, a) < TestPos(detected, b)

\* C10 witness: two segments are held that were detected in the other order
C10_Witness ==
  /\ RunEnded
  /\ Len(polarization_tests) >= 2
  /\ polarization_tests # DetectedTests(CleanNow, step_threshold)

\* what a downstream stage must find: a table that is sorted by its
\* timestamp column, with the role lists computed from that table
ViewComplete(df, ts_columns, voltage_tags) ==
  /\ df \in SortedByTimestamp(df)
  /\ ts_columns = TimestampColumns(df.columns)
  /\ voltage_tags = VoltageColumns(df.columns)

\* C5: whenever _detect_polarization_tests reads the shared table, under
\* every interleaving with the ingestion worker, the table is the sorted
\* result of a run and the role lists it is used with were computed from
\* that table.
C5_ReadsCompleteResult ==
  [][AnalyzeDetect =>
       ViewComplete(combined_df[1], timestamp_columns, analyze_call[1])]_vars

\* the curve run at the head of the queue is Scenario D
ScenarioDCall ==
  /\ after_queue # <<>>
  /\ Head(after_queue).op = "_create_polarization_plot"
  /\ Head(after_queue).tests = ScenarioDSegment

\* the curve point of a bin with the given mean current and mean voltage,
\* both in units of 1/Scale
PointOf(current, voltage, active_area) ==
  [current_density |-> DivArea(Frac(current, 1), active_area),
   voltage |-> Frac(voltage, 1)]

\* C6 as the spec states it: Scenario D yields one bin, at current 5.000000
\* with averaged voltage 1.81
C6_ScenarioDAsStated ==
  [][(ScenarioDCall /\ CreatePolarizationPlot) =>
       (/\ Len(pol_plot'[1]) = 1
        /\ pol_plot'[1][1].points =
             << PointOf(5 * Scale, Volts(181).n, Head(after_queue).active_area) >>)]_vars

\* C6, amended: Scenario D yields exactly two bins (two curve points): one
\* at current 4.999999 with voltage 1.80 and, after it, one at current
\* 5.000001 with voltage 1.82; both readings are already 6-decimal values
\* and rounding leaves them apart.
C6_ScenarioD ==
  [][(ScenarioDCall /\ CreatePolarizationPlot) =>
       (/\ Len(pol_plot'[1]) = 1
        /\ pol_plot'[1][1].points =
             << PointOf(Micro(4999999).n, Volts(180).n, Head(after_queue).active_area),
                PointOf(Micro(5000001).n, Volts(182).n, Head(after_queue).active_area) >>)]_vars

\* C6 witness: the curve of Scenario D has been drawn
C6_Witness ==
  /\ polarization_tests = ScenarioDSegment
  /\ pol_plot # None
  /\ Len(pol_plot[1]) = 1

\* a step that ends a process invocation that has no source: process_files
\* returning at its empty-selection check, or the worker finding no frame
\* to merge because the selection was emptied before it read the list
NoSourceStep ==
  \/ ProcessFiles /\ selected_files = <<>>
  \/ WorkerConcat /\ dataframes = <<>>

Classified ==
  combined_df # None /\ processing_thread.pc \in {"complete", "dead"}

NothingToSegment(df, voltage_tags) ==
  LET current_cols == CurrentColumns(df.columns)
      time_cols == SortColumns(df.columns)
      tags == SelectSeq(voltage_tags, LAMBDA t : HasCol(df.columns, t))
  IN \/ current_cols = <<>>
     \/ time_cols = <<>>
     \/ tags = <<>>
     \/ Len(CleanSeries(df, current_cols[1], time_cols[1], tags).current) < 2

\* C11: whenever the table has no current column, no timestamp column, no
\* requested voltage tag, or fewer than 2 rows after cleaning, the call of
\* _detect_polarization_tests raises no exception and the segment list it
\* returns is empty.
C11_EmptyNoException ==
  [][AnalyzeDetect =>
       LET df == combined_df[1]
           res == DetectPolarizationTests(df, timestamp_columns,
                                          analyze_call[1], step_threshold)
       IN NothingToSegment(df, analyze_call[1]) =>
            (~res.raised /\ polarization_tests' = <<>>)]_vars

\* the clean pairs (i - 1, i), Python indices
Pairs(clean) == 1..(Len(clean.current) - 1)

\* C12: when no consecutive-pair delta of the cleaned current sequence
\* reaches the threshold in absolute value, the analysis leaves zero
\* segments.
C12_NoStepNoSegment ==
  [][(AnalyzeDetect /\ Len(CleanNow.current) >= 2) =>
       ((\A i \in Pairs(CleanNow) :
           LET delta == DeltaAt(CleanNow, i)
           IN IsNa(delta) \/ IsFlat(delta, step_threshold))
        => polarization_tests' = <<>>)]_vars

\* C12 witness: an analysis is running on a table of at least 2 clean rows
\* whose current changes, by less than the threshold at every pair
C12_Witness ==
  /\ analyze_call # None
  /\ Len(CleanNow.current) >= 2
  /\ \A i \in Pairs(CleanNow) : IsFlat(DeltaAt(CleanNow, i), step_threshold)
  /\ \E i \in Pairs(CleanNow) : DeltaAt(CleanNow, i).n # 0

\* the number of pairs of the clean sequence that are steps under t
DirectionalPairs(clean, t) ==
  Cardinality({i \in Pairs(clean) : StepDir(DeltaAt(clean, i), t) # 0})

\* C14: for the cleaned current sequence of the table and thresholds
\* 0 < t1 <= t2, at least as many pairs are directional steps under t1 as
\* under t2.
C14_ThresholdMonotone ==
  \A t1, t2 \in DetectThresholds :
    t1 <= t2 =>
      DirectionalPairs(CleanNow, t1) >= DirectionalPairs(CleanNow, t2)

\* C14 witness: a sequence with a pair that is a step under the lower
\* threshold only, analyzed under the lower threshold
C14_Witness ==
  /\ polarization_tests # <<>>
  /\ \E t2 \in DetectThresholds :
       /\ step_threshold < t2
       /\ DirectionalPairs(CleanNow, step_threshold) > DirectionalPairs(CleanNow, t2)

\* the number of pairs in the range of a segment that are steps of its
\* direction
StepsInRange(clean, test, t) ==
  Cardinality({i \in (test.start_idx + 1)..test.end_idx :
                 StepDir(DeltaAt(clean, i), t) =
                   (IF test.type = "Ramp Up" THEN 1 ELSE 0 - 1)})

\* C18: no segment is emitted with an end index that does not exceed its
\* start index or with zero step events, and a lone step, reversed at once
\* or followed by flat pairs only, is never emitted as a segment: every
\* held segment spans more than one step.
C18_NoiseSuppressed ==
  \A k \in 1..Len(polarization_tests) :
    LET test == polarization_tests[k]
    IN /\ test.end_idx > test.start_idx
       /\ test.step_count >= 1
       /\ StepsInRange(CleanNow, test, step_threshold) >= 2

\* C19 as the spec states it: segments that follow one another have
\* opposite directions, and each ends at the index the next starts at
C19_SharedPointAsStated ==
  \A k \in 1..(Len(polarization_tests) - 1) :
    /\ polarization_tests[k].type # polarization_tests[k + 1].type
    /\ polarization_tests[k].end_idx = polarization_tests[k + 1].start_idx

\* C19, amended: a reversal at the pair (i-1, i) finalizes the open
\* sequence at its last recorded index and opens one of the new direction
\* at i-1 with step count 1; segments that follow one another have
\* opposite directions, and each ends at the index the next starts at
\* unless NaN deltas (inf - inf) came before the reversal: then it ends
\* earlier, and every pair between the two has a NaN delta.
C19_SharedPointOrNaNGap ==
  \A k \in 1..(Len(polarization_tests) - 1) :
    LET a == polarization_tests[k]
        b == polarization_tests[k + 1]
    IN /\ a.type # b.type
       /\ a.end_idx <= b.start_idx
       /\ \A i \in (a.end_idx + 1)..b.start_idx : IsNa(DeltaAt(CleanNow, i))
       /\ StepDir(DeltaAt(CleanNow, b.start_idx + 1), step_threshold) =
            (IF b.type = "Ramp Up" THEN 1 ELSE 0 - 1)

\* C19 witness: two segments are held, with a pair of NaN delta between
\* the end of the first and the start of the second
C19_Witness ==
  /\ Len(polarization_tests) = 2
  /\ polarization_tests[1].end_idx < polarization_tests[2].start_idx

\* analyze_polarization_tests would return at its voltage-column check: a
\* table is loaded and self.voltage_columns is empty
AnalyzeReturnsAtOnce ==
  combined_df # None /\ analyze_call = None /\ voltage_columns = <<>>

\* C20: after an analyze_polarization_tests invocation on a loaded table
\* the held segments are the segmentation of that table; on a table
\* without voltage columns, where the invocation returns at once and the
\* state after it is the state before it, none is held.
C20_HeldIsSegmentation ==
  AnalyzeReturnsAtOnce => polarization_tests = <<>>

\* h is half of the current density d
HalfOf(h, d) == h = (IF d.k = "num" THEN Frac(d.num, 2 * d.den) ELSE d)

\* C15: with the same segments and voltage tags, the curve for twice the
\* active area has the same series with the same number of points in the
\* same order, every voltage unchanged and every current density halved.
C15_AreaScaling ==
  [][CreatePolarizationPlot =>
       LET call == Head(after_queue)
           drawn == pol_plot'[1]
           doubled == PlottedSeries(call.tests, call.voltage_tags,
                                    2 * call.active_area)
       IN /\ Len(doubled) = Len(drawn)
          /\ \A k \in 1..Len(drawn) :
               /\ Len(doubled[k].points) = Len(drawn[k].points)
               /\ \A i \in 1..Len(drawn[k].points) :
                    /\ doubled[k].points[i].voltage = drawn[k].points[i].voltage
                    /\ HalfOf(doubled[k].points[i].current_density,
                              drawn[k].points[i].current_density)]_vars

\* C15 witness: a curve of at least two points with different voltages has
\* been drawn
C15_Witness ==
  /\ pol_plot # None
  /\ \E k \in 1..Len(pol_plot[1]) :
       /\ Len(pol_plot[1][k].points) >= 2
       /\ pol_plot[1][k].points[1].voltage # pol_plot[1][k].points[2].voltage
       /\ pol_plot[1][k].points[1].current_density.num # 0


\* the area, in tenths of a cm2, the documentation gives for each text of
\* the area entry: the entry itself when it is a positive number, 25.0
\* otherwise
DocumentedArea ==
  [text \in ActiveAreaTexts |-> IF text = << "5", "0" >> THEN 500 ELSE 250]

\* C13: a curve run started with a non-numeric, zero or negative area entry
\* uses 25.0 cm2, one started with a positive entry uses the entry; the
\* worker hands that area to the plot and schedules no error
C13_AreaFallback ==
  [][/\ (PlotPolarizationTests /\ ~PolThreadAlive /\ PolThreadAlive')
        => pol_plotting_thread'.active_area = DocumentedArea[active_area_var]
     /\ PlotPolarizationThread
        => LET call == after_queue'[Len(after_queue')]
           IN /\ call.op = "_create_polarization_plot"
              /\ call.active_area = pol_plotting_thread.active_area]_vars

\* a curve run was started while the area entry read -3, and holds 25.0
C13_Witness ==
  /\ active_area_var = << "-", "3" >>
  /\ pol_plotting_thread.pc = "start"
  /\ pol_plotting_thread.active_area = DefaultArea

\* the Reading Table, the role lists and the held segments
HeldData ==
  << combined_df, timestamp_columns, data_columns, voltage_columns,
     polarization_tests >>

\* C17: a request for an ingestion run, a time-series plot run or a curve
\* run made while the worker of that operation is alive leaves that worker
\* as the only one, and changes neither the Reading Table, the role lists
\* nor the held segments
C17_OneWorkerPerOperation ==
  [][/\ (ThreadAlive /\ (ProcessFiles \/ ProcessAllFiles))
        => UNCHANGED << processing_thread, HeldData >>
     /\ (PlotThreadAlive /\ GeneratePlot)
        => UNCHANGED << plotting_thread, HeldData >>
     /\ (PolThreadAlive /\ PlotPolarizationTests)
        => UNCHANGED << pol_plotting_thread, HeldData >>]_vars

\* the three workers are alive at once and the main thread is free to take
\* a request, with an area entry other than the one the curve worker got
C17_Witness ==
  /\ ThreadAlive
  /\ PlotThreadAlive
  /\ PolThreadAlive
  /\ after_queue = <<>>
  /\ file_listbox # <<>>
  /\ ActiveArea(active_area_var) # pol_plotting_thread.active_area


\* the segment with its readings rearranged by p, the current readings and
\* every voltage series alike
Permuted(test, p) ==
  [test EXCEPT
     !.current_data = [i \in 1..Len(@) |-> @[p[i]]],
     !.voltage_series =
        [tag \in DOMAIN @ |-> [i \in 1..Len(@[tag]) |-> @[tag][p[i]]]]]

\* C16: aggregation is order-independent: rearranging a segment's current
\* readings and its paired voltage readings by the same permutation before
\* binning gives the same bins, each with the same averaged current and
\* the same averaged voltage.  The averages are the exact quotients of this
\* model; the floating-point sums of the code agree with them up to
\* rounding.
C16_OrderIndependent ==
  [][CreatePolarizationPlot =>
       LET call == Head(after_queue)
       IN \A k \in 1..Len(call.tests) :
            \A p \in Permutations(1..Len(call.tests[k].current_data)) :
              PlottedSeries([call.tests EXCEPT ![k] = Permuted(@, p)],
                            call.voltage_tags, call.active_area)
                = pol_plot'[1]]_vars

\* C16 witness: a curve has been drawn from a segment in which two readings
\* with different currents and different voltages fall into one bin
C16_Witness ==
  /\ pol_plot # None
  /\ pol_plot[1] # <<>>
  /\ polarization_tests # <<>>
  /\ LET cur == polarization_tests[1].current_data
         vol == polarization_tests[1].voltage_series[ColCellVoltage]
     IN \E i, j \in 1..Len(cur) :
          /\ cur[i] # cur[j]
          /\ RoundCell(cur[i]) = RoundCell(cur[j])
          /\ vol[i] # vol[j]


\* C21: a flat pair while a sequence is open extends its end and is no step
\* event: the step_count of every held segment is the number of pairs at
\* start_idx+1..end_idx whose direction is the segment's, it lies between 1
\* and end_idx - start_idx, and no segment ends in front of a flat pair,
\* however many flat pairs it holds.
C21_FlatExtendsOnly ==
  \A k \in 1..Len(polarization_tests) :
    LET test == polarization_tests[k]
    IN /\ test.step_count = StepsInRange(CleanNow, test, step_threshold)
       /\ 1 <= test.step_count
       /\ test.step_count <= test.end_idx - test.start_idx
       /\ test.end_idx + 1 \in Pairs(CleanNow)
            => ~IsFlat(DeltaAt(CleanNow, test.end_idx + 1), step_threshold)

\* C21 witness: a held segment of one step followed by two flat pairs
C21_Witness ==
  \E k \in 1..Len(polarization_tests) :
    LET test == polarization_tests[k]
    IN /\ test.step_count = 1
       /\ test.end_idx - test.start_idx = 3
       /\ \A i \in (test.start_idx + 2)..test.end_idx :
            IsFlat(DeltaAt(CleanNow, i), step_threshold)


\* the segment of tests that was detected last: sequences are opened at
\* increasing indices
DetectedLast(tests) ==
  CHOOSE t \in {tests[k] : k \in 1..Len(tests)} :
    \A k \in 1..Len(tests) : tests[k].start_idx <= t.start_idx

\* C22 as the spec states it: when the clean sequence of N points holds a
\* directional pair, the analysis leaves a segment and the one detected
\* last ends at N-1
C22_LastEndsAtLastIndexAsStated ==
  [][(AnalyzeDetect /\ Len(CleanNow.current) >= 2
        /\ DirectionalPairs(CleanNow, step_threshold) >= 1) =>
       /\ polarization_tests' # <<>>
       /\ DetectedLast(polarization_tests').end_idx =
            Len(CleanNow.current) - 1]_vars

\* C22, amended: when the clean sequence holds a directional pair, the
\* analysis leaves a segment, and the one detected last ends at the last
\* pair whose delta is a number, whatever number of flat pairs follow its
\* last directional step: at N-1 unless the sequence ends in NaN deltas
\* (inf - inf).
C22_LastEndsAtLastNumberedPair ==
  [][(AnalyzeDetect /\ Len(CleanNow.current) >= 2
        /\ DirectionalPairs(CleanNow, step_threshold) >= 1) =>
       /\ polarization_tests' # <<>>
       /\ LET last == DetectedLast(polarization_tests')
          IN /\ ~IsNa(DeltaAt(CleanNow, last.end_idx))
             /\ \A i \in Pairs(CleanNow) :
                  i > last.end_idx => IsNa(DeltaAt(CleanNow, i))]_vars

\* C22 witness: the last held segment has a flat pair behind its last step
\* and ends at the last clean index
C22_Witness ==
  /\ polarization_tests # <<>>
  /\ LET last == DetectedLast(polarization_tests)
     IN /\ last.end_idx = Len(CleanNow.current) - 1
        /\ IsFlat(DeltaAt(CleanNow, last.end_idx), step_threshold)


\* the positions, in the loaded table, of the rows whose current, timestamp
\* and voltage cells all parse
ParsedRows ==
  LET df == combined_df[1]
      cell(r, name) == df.rows[r][ColIndex(df.columns, name)]
  IN {r \in 1..Len(df.rows) :
        /\ ~IsNa(ToNumeric(cell(r, CurrentColumns(df.columns)[1])))
        /\ ~IsNa(ToDatetime(cell(r, timestamp_columns[1])))
        /\ \A t \in 1..Len(voltage_columns) :
             ~IsNa(ToNumeric(cell(r, voltage_columns[t])))}

\* the table position of the row that the clean sequence numbers n
ParsedRowAt(n) ==
  CHOOSE r \in ParsedRows : Cardinality({q \in ParsedRows : q < r}) = n

\* C23: the clean sequence is made of exactly the table rows whose current,
\* timestamp and every voltage tag parsed, in table order and numbered
\* 0..N-1; every segment the analysis emits has 0 <= start_idx < end_idx
\* <= N-1 in that numbering, and its current, time and voltage slices have
\* end_idx - start_idx + 1 entries each, the parsed cells of the rows
\* numbered start_idx..end_idx, none of them missing.
C23_CleanNumbering ==
  [][AnalyzeDetect =>
       LET df == combined_df[1]
           n == Cardinality(ParsedRows)
           cell(i, name) == df.rows[ParsedRowAt(i)][ColIndex(df.columns, name)]
       IN \A k \in 1..Len(polarization_tests') :
            LET test == polarization_tests'[k]
                len == test.end_idx - test.start_idx + 1
            IN /\ 0 <= test.start_idx
               /\ test.start_idx < test.end_idx
               /\ test.end_idx <= n - 1
               /\ Len(test.current_data) = len
               /\ Len(test.time_data) = len
               /\ DOMAIN test.voltage_series =
                    {voltage_columns[t] : t \in 1..Len(voltage_columns)}
               /\ \A j \in 1..len :
                    /\ test.current_data[j] =
                         ToNumeric(cell(test.start_idx + j - 1,
                                        CurrentColumns(df.columns)[1]))
                    /\ test.time_data[j] =
                         ToDatetime(cell(test.start_idx + j - 1,
                                         timestamp_columns[1]))
                    /\ ~IsNa(test.current_data[j])
                    /\ ~IsNa(test.time_data[j])
               /\ \A tag \in DOMAIN test.voltage_series :
                    /\ Len(test.voltage_series[tag]) = len
                    /\ \A j \in 1..len :
                         /\ test.voltage_series[tag][j] =
                              ToNumeric(cell(test.start_idx + j - 1, tag))
                         /\ ~IsNa(test.voltage_series[tag][j])]_vars

\* C23 witness: a segment is held whose first reading stands further down
\* in the table than its clean number says: a row before it was dropped
C23_Witness ==
  \E k \in 1..Len(polarization_tests) :
    ParsedRowAt(polarization_tests[k].start_idx)
      > polarization_tests[k].start_idx + 1


\* the sum of the cells of xs at the positions in S
RECURSIVE SumAt(_, _)
SumAt(S, xs) ==
  IF S = {} THEN 0
  ELSE LET i == CHOOSE j \in S : TRUE IN xs[i].n + SumAt(S \ {i}, xs)

\* C24: for the segment and the voltage tag of a curve run, the curve has
\* exactly one point per distinct value of the current rounded to 6
\* decimals; the voltage of the point is the mean of the voltages paired
\* with the currents of that bin, its current density the mean of those
\* currents divided by the active area; and the points are in ascending
\* order of current density.
C24_OnePointPerBin ==
  [][CreatePolarizationPlot =>
       LET call == Head(after_queue)
           test == call.tests[1]
           tag == call.voltage_tags[1]
           cur == test.current_data
           vol == test.voltage_series[tag]
           keys == {RoundCell(cur[i]) : i \in 1..Len(cur)}
           bin(key) == {i \in 1..Len(cur) : RoundCell(cur[i]) = key}
           points == pol_plot'[1][1].points
       IN /\ Len(call.tests) = 1 /\ Len(call.voltage_tags) = 1
          /\ Len(pol_plot'[1]) = 1
          /\ Len(points) = Cardinality(keys)
          /\ \A key \in keys :
               \E i \in 1..Len(points) :
                 /\ points[i].voltage =
                      Frac(SumAt(bin(key), vol), Cardinality(bin(key)))
                 /\ points[i].current_density =
                      Frac(SumAt(bin(key), cur),
                           Cardinality(bin(key)) * call.active_area)
          /\ \A i \in 1..(Len(points) - 1) :
               FracLess(points[i].current_density,
                        points[i + 1].current_density)]_vars

\* C24 witness: a curve of two points has been drawn from a segment of
\* three readings with three different currents, two of them in one bin
C24_Witness ==
  /\ pol_plot # None
  /\ Len(pol_plot[1]) = 1
  /\ Len(pol_plot[1][1].points) = 2
  /\ LET cur == polarization_tests[1].current_data
     IN Len(cur) = 3 /\ Cardinality({cur[i] : i \in 1..3}) = 3


\* C25: every ingestion run that process_files starts ends by scheduling
\* _processing_complete or _processing_error, so the process button it
\* disabled is enabled again in the end, whatever the operator does to the
\* file selection and the folder meanwhile.
C25_ButtonReenabled == (process_btn = "disabled") ~> (process_btn = "normal")


\* no ingestion run and no analysis is under way and no callback waits
Quiescent ==
  ~ThreadAlive /\ after_queue = <<>> /\ analyze_call = None

\* C26: when no ingestion run and no analysis is under way, every segment
\* held in self.polarization_tests is a segment of the segmentation of the
\* Reading Table that is loaded now: no segment detected from a table that
\* an ingestion run has replaced is still held.
C26_HeldFromCurrentTable ==
  (Quiescent /\ combined_df # None) =>
    LET now == DetectPolarizationTests(combined_df[1], timestamp_columns,
                                       voltage_columns, step_threshold).tests
    IN \A i \in 1..Len(polarization_tests) :
         \E j \in 1..Len(now) : polarization_tests[i] = now[j]


\* what the positions a waiting curve worker was given resolve to in
\* self.polarization_tests as it stands: per position the segment, or None
\* where the position is out of range
SegmentsAtPositions ==
  LET indices == pol_plotting_thread.selected_indices
  IN [k \in 1..Len(indices) |->
        IF indices[k] < Len(polarization_tests)
        THEN Some(polarization_tests[indices[k] + 1])
        ELSE None]

\* C27: between plot_polarization_tests starting the curve worker and the
\* worker's lookup, the operator's positions keep resolving to the segments
\* they resolved to at the request, so the lookup hands the aggregator
\* exactly those segments: no step taken while the worker waits (an
\* analysis replacing the held collection included) moves a position out
\* of range or onto a different segment.
C27_LookupAsRequested ==
  [][(pol_plotting_thread.pc = "start" /\ pol_plotting_thread'.pc = "start")
       => SegmentsAtPositions' = SegmentsAtPositions]_vars

====
